---- MODULE Spec2Model ----
(***************************************************************************)
(* A model of core/services/eth/contracts/FluxAggregator.go: the round     *)
(* state snapshot and its derived expiry time, the three typed queries     *)
(* built on ConnectedContract.Call, and the log subscription that wraps a  *)
(* listener in a decoding listener keyed by fluxAggregatorLogTypes.        *)
(*                                                                         *)
(* Four specifications share the variables:                                *)
(*   SpecTimeout     TimesOutAt over snapshots with boundary uint64 fields *)
(*   SpecQuery       RoundState / GetOracles / LatestRoundData, one caller *)
(*   SpecConcurrent  RoundState invoked by several callers, interleaved    *)
(*   SpecLogs        SubscribeToLogs, log delivery and unsubscription      *)
(***************************************************************************)
EXTENDS Integers, Sequences, FiniteSets, TLC

VARIABLES
    \* SpecTimeout
    rs,             \* a FluxAggregatorRoundState value
    timesOutAt,     \* <<>> before the call, <<v>> once TimesOutAt() returned v
    \* SpecQuery
    chain,          \* the contract's on-chain state read by Call
    ret,            \* what the last query returned: [op, args, callErr, result, err]
    invocations,    \* queries invoked so far
    calls,          \* fa.Call invocations issued so far
    \* SpecConcurrent
    fa,             \* the fluxAggregator handle: [address, ethClient]
    cpc,            \* caller -> "idle" | "invoked" | "called" | "done"
    cargs,          \* caller -> <<oracle, roundID>>
    slot,           \* storage slot -> the `result` variable held there
    cerr,           \* caller -> the error its Call returned
    cret,           \* caller -> [result, err] returned by RoundState
    \* SpecLogs
    connected,      \* the broadcaster is attached to the live log stream
    registered,     \* listeners registered with the broadcaster
    subRet,         \* <<>> or <<[connected, unsubscribe]>> returned by SubscribeToLogs
    inflight,       \* <<>> or <<[idx, to]>>: a log being handed to listeners
    pushed,         \* raw logs the broadcaster took from the chain, in order
    handled,        \* indices of the logs HandleLog has run on
    delivered,      \* what the application listener received: [idx, shape, rec, inst]
    reported,       \* errors reported by the pipeline: [idx, err]
    nextInstance,   \* allocator of record instances (reflect.New)
    unsubPc,        \* context -> "idle" | "removing" | "returned"
    unsubReturns,   \* calls of the unsubscribe handle that have returned
    deliveredAtReturn \* Len(delivered) when the handle first returned

varsTimeout == <<rs, timesOutAt>>
varsQuery == <<chain, ret, invocations, calls>>
varsConcurrent == <<fa, cpc, cargs, slot, cerr, cret>>
varsLogs == <<connected, registered, subRet, inflight, pushed, handled, delivered,
              reported, nextInstance, unsubPc, unsubReturns, deliveredAtReturn>>
vars == <<varsTimeout, varsQuery, varsConcurrent, varsLogs>>

Range(s) == {s[i] : i \in 1..Len(s)}

(***************************************************************************)
(* Go values.  A big.Int pointer and an error are sequences: <<>> is nil.   *)
(* A slice is a record that tells nil from empty.  A uint64 is a           *)
(* little-endian word of 16-bit limbs, so that 64-bit arithmetic keeps its *)
(* width.                                                                  *)
(***************************************************************************)
UintBits == 64
LimbBase == 2^16
NumLimbs == UintBits \div 16

NilInt == <<>>
BigInt(n) == <<n>>

NilSlice == [isNil |-> TRUE, elems |-> <<>>]
Slice(s) == [isNil |-> FALSE, elems |-> s]

U64(n) == [i \in 1..NumLimbs |-> IF i = 1 THEN n ELSE 0]
MaxUint64 == [i \in 1..NumLimbs |-> LimbBase - 1]

RECURSIVE AddLimbs(_, _, _, _)
AddLimbs(a, b, i, carry) ==
    IF i > NumLimbs THEN <<carry>>
    ELSE LET s == a[i] + b[i] + carry
         IN  <<s % LimbBase>> \o AddLimbs(a, b, i + 1, s \div LimbBase)

\* The mathematical sum of two uint64 words: NumLimbs limbs and the carry out.
WideSum(a, b) == AddLimbs(a, b, 1, 0)

\* Go's uint64 addition: the sum modulo 2^64.
Add64(a, b) == SubSeq(WideSum(a, b), 1, NumLimbs)

RECURSIVE LessFrom(_, _, _)
LessFrom(a, b, i) ==
    IF i = 0 THEN FALSE
    ELSE IF a[i] # b[i] THEN a[i] < b[i]
    ELSE LessFrom(a, b, i - 1)

\* a < b as unsigned 64-bit integers
Less64(a, b) == LessFrom(a, b, NumLimbs)

(***************************************************************************)
(* FluxAggregatorRoundState and FluxAggregatorRoundData                   *)
(***************************************************************************)
ZeroRoundState ==
    [ReportableRoundID |-> 0, EligibleToSubmit |-> FALSE, LatestAnswer |-> NilInt,
     Timeout |-> U64(0), StartedAt |-> U64(0), AvailableFunds |-> NilInt,
     PaymentAmount |-> NilInt, OracleCount |-> 0]

ZeroRoundData ==
    [RoundID |-> NilInt, Answer |-> NilInt, StartedAt |-> NilInt,
     UpdatedAt |-> NilInt, AnsweredInRound |-> NilInt]

\* TimesOutAt with the sum saturated instead of wrapped.
TimesOutAtSaturating(s) ==
    IF WideSum(s.StartedAt, s.Timeout)[NumLimbs + 1] = 0
    THEN Add64(s.StartedAt, s.Timeout) ELSE MaxUint64

\* func (rs FluxAggregatorRoundState) TimesOutAt() uint64
TimesOutAt(s) == Add64(s.StartedAt, s.Timeout)

(***************************************************************************)
(* SpecTimeout                                                             *)
(***************************************************************************)
LimbSamples == {0, 1, LimbBase - 1}
WordSamples == [1..NumLimbs -> LimbSamples]

IdleTimeout == rs = ZeroRoundState /\ timesOutAt = <<>>

InitTimeout ==
    /\ rs \in {[ZeroRoundState EXCEPT !.StartedAt = a, !.Timeout = b] :
                   a \in WordSamples, b \in WordSamples}
    /\ timesOutAt = <<>>

CallTimesOutAt ==
    /\ timesOutAt = <<>>
    /\ timesOutAt' = <<TimesOutAt(rs)>>
    /\ UNCHANGED <<rs, varsQuery, varsConcurrent, varsLogs>>

(***************************************************************************)
(* Errors (github.com/pkg/errors).  An error is the chain of its messages, *)
(* outermost first; a message is its sequence of tokens, so that "the      *)
(* message contains ..." is a check on the text and not on an opaque       *)
(* string.                                                                 *)
(***************************************************************************)
Nil == <<>>

\* errors.Wrap(err, msg): nil for a nil err, else msg in front of err
Wrap(err, msg) == IF err = Nil THEN Nil ELSE <<msg>> \o err

\* err.Error(): "msg: cause"
RECURSIVE ErrorText(_)
ErrorText(err) ==
    IF Len(err) = 1 THEN err[1]
    ELSE err[1] \o <<":">> \o ErrorText(Tail(err))

\* errors.Cause(err): the innermost error
Cause(err) == <<err[Len(err)]>>

\* sub occurs in text as a contiguous run of tokens
Contains(text, sub) ==
    \E i \in 1..(Len(text) - Len(sub) + 1) : SubSeq(text, i, i + Len(sub) - 1) = sub

RoundStateWrapMsg == <<"unable", "to", "encode", "message", "call">>

GetOraclesWrapMsg == <<"error", "calling", "flux", "aggregator", "getOracles">>

LatestRoundDataWrapMsgNoHint == <<"error", "calling", "fluxaggregator", "#", "latestRoundData">>
LatestRoundDataWrapMsg ==
    <<"error", "calling", "fluxaggregator", "#", "latestRoundData", "-",
      "contract", "may", "have", "0", "rounds">>

ZeroRoundsHint == <<"contract", "may", "have", "0", "rounds">>

\* The contract method each query names in its Call.
MethodOf(op) ==
    CASE op = "RoundState" -> "oracleRoundState"
      [] op = "GetOracles" -> "getOracles"
      [] op = "LatestRoundData" -> "latestRoundData"

(***************************************************************************)
(* The contract and ConnectedContract.Call                                *)
(***************************************************************************)
MaxRounds == 2
MaxRoundID == 2
MaxInvocations == 3

Addresses == {"0xA1", "0xA2"}
AddressNumber(a) == IF a = "0xA1" THEN 1 ELSE 2

OracleLists ==
    {<<>>} \cup {<<a>> : a \in Addresses}
           \cup {p \in Addresses \X Addresses : p[1] # p[2]}

Chains == [oracles : OracleLists, rounds : 0..MaxRounds]

\* oracleRoundState(oracle, roundID) as the contract answers it
ChainRoundState(ch, oracle, roundID) ==
    [ReportableRoundID |-> IF roundID > 0 THEN roundID ELSE ch.rounds + 1,
     EligibleToSubmit  |-> oracle \in Range(ch.oracles),
     LatestAnswer      |-> BigInt(100 * AddressNumber(oracle) + roundID),
     Timeout           |-> U64(30),
     StartedAt         |-> U64(1000 + ch.rounds),
     AvailableFunds    |-> BigInt(50),
     PaymentAmount     |-> BigInt(5),
     OracleCount       |-> Len(ch.oracles)]

\* latestRoundData() as the contract answers it when it has a completed round
ChainLatestRoundData(ch) ==
    [RoundID         |-> BigInt(ch.rounds),
     Answer          |-> BigInt(100 + ch.rounds),
     StartedAt       |-> BigInt(1000 + ch.rounds),
     UpdatedAt       |-> BigInt(1001 + ch.rounds),
     AnsweredInRound |-> BigInt(ch.rounds)]

Decoded(ch, method, args) ==
    CASE method = "oracleRoundState" -> ChainRoundState(ch, args[1], args[2])
      [] method = "getOracles" -> Slice(ch.oracles)
      [] method = "latestRoundData" -> ChainLatestRoundData(ch)

\* An out-parameter the decoder abandoned part-way: the first field (or
\* element) written, the rest as the caller passed it.
PartlyDecoded(out, full, method) ==
    CASE method = "oracleRoundState" ->
            [out EXCEPT !.ReportableRoundID = full.ReportableRoundID]
      [] method = "getOracles" ->
            IF full.elems = <<>> THEN out ELSE Slice(<<full.elems[1]>>)
      [] method = "latestRoundData" -> [out EXCEPT !.RoundID = full.RoundID]

CallEncodingError == <<"CallEncodingError">>
RemoteInvocationError == <<"RemoteInvocationError">>
NoDataPresent == <<"RemoteInvocationError", "execution", "reverted", "No", "data", "present">>

\* latestRoundData reverts on a contract with no completed round.
CallCanSucceed(ch, method) == method = "latestRoundData" => ch.rounds > 0

CallFailures(ch, method) ==
    IF CallCanSucceed(ch, method) THEN {CallEncodingError, RemoteInvocationError}
    ELSE {NoDataPresent}

\* fa.Call(&out, method, args...): the outcomes, each the returned error and
\* the out-parameter as the call leaves it.  A successful decode of an empty
\* array either assigns an empty list or leaves the out-parameter alone.
Call(ch, out, method, args) ==
    LET full == Decoded(ch, method, args)
    IN  (IF CallCanSucceed(ch, method) THEN {[err |-> Nil, out |-> full]} ELSE {})
        \cup
        (IF method = "getOracles" /\ ch.oracles = <<>>
         THEN {[err |-> Nil, out |-> out]} ELSE {})
        \cup
        {[err |-> <<c>>, out |-> o] :
            c \in CallFailures(ch, method),
            o \in {out, PartlyDecoded(out, full, method)}}

(***************************************************************************)
(* The typed queries                                                       *)
(***************************************************************************)
\* RoundState returning the half-written result beside the error.
RoundStateReturnPartial(o) ==
    IF o.err # Nil
    THEN [result |-> o.out, err |-> Wrap(o.err, RoundStateWrapMsg)]
    ELSE [result |-> o.out, err |-> Nil]

\* RoundState after its Call returned o
RoundStateReturn(o) ==
    IF o.err # Nil
    THEN [result |-> ZeroRoundState, err |-> Wrap(o.err, RoundStateWrapMsg)]
    ELSE [result |-> o.out, err |-> Nil]

\* GetOracles with `var oracles []common.Address` in place of make.
GetOraclesInitNil == NilSlice

\* oracles = make([]common.Address, 0)
GetOraclesInit == Slice(<<>>)

GetOraclesReturn(o) ==
    IF o.err # Nil
    THEN [result |-> NilSlice, err |-> Wrap(o.err, GetOraclesWrapMsg)]
    ELSE [result |-> o.out, err |-> Nil]

LatestRoundDataReturn(o) ==
    IF o.err # Nil
    THEN [result |-> ZeroRoundData, err |-> Wrap(o.err, LatestRoundDataWrapMsg)]
    ELSE [result |-> o.out, err |-> Nil]

NoReturn == [op |-> "none", args |-> <<>>, callErr |-> Nil, result |-> <<>>, err |-> Nil]

Returned(op, args, o, r) ==
    [op |-> op, args |-> args, callErr |-> o.err, result |-> r.result, err |-> r.err]

IdleQuery ==
    /\ chain = [oracles |-> <<>>, rounds |-> 0]
    /\ ret = NoReturn
    /\ invocations = 0
    /\ calls = 0

InitQuery ==
    /\ chain \in Chains
    /\ ret = NoReturn
    /\ invocations = 0
    /\ calls = 0

RoundState(oracle, roundID) ==
    /\ invocations < MaxInvocations
    /\ \E o \in Call(chain, ZeroRoundState, "oracleRoundState", <<oracle, roundID>>) :
           ret' = Returned("RoundState", <<oracle, roundID>>, o, RoundStateReturn(o))
    /\ invocations' = invocations + 1
    /\ calls' = calls + 1
    /\ UNCHANGED <<chain, varsTimeout, varsConcurrent, varsLogs>>

GetOracles ==
    /\ invocations < MaxInvocations
    /\ \E o \in Call(chain, GetOraclesInit, "getOracles", <<>>) :
           ret' = Returned("GetOracles", <<>>, o, GetOraclesReturn(o))
    /\ invocations' = invocations + 1
    /\ calls' = calls + 1
    /\ UNCHANGED <<chain, varsTimeout, varsConcurrent, varsLogs>>

LatestRoundData ==
    /\ invocations < MaxInvocations
    /\ \E o \in Call(chain, ZeroRoundData, "latestRoundData", <<>>) :
           ret' = Returned("LatestRoundData", <<>>, o, LatestRoundDataReturn(o))
    /\ invocations' = invocations + 1
    /\ calls' = calls + 1
    /\ UNCHANGED <<chain, varsTimeout, varsConcurrent, varsLogs>>

(***************************************************************************)
(* SpecConcurrent: RoundState from several callers on one handle.  Each    *)
(* invocation runs in three steps (its frame is set up, its Call returns,  *)
(* it returns), so that the callers interleave between them.               *)
(***************************************************************************)
NumCallers == 2
Callers == 1..NumCallers

\* &fluxAggregator{connectedContract, ethClient, address}
NewFluxAggregator(address, ethClient) == [address |-> address, ethClient |-> ethClient]

\* One `result` shared by every invocation (a package-level variable).
SharedResultSlot(c) == 1

\* `var result FluxAggregatorRoundState`: a local of caller c's invocation
ResultSlot(c) == c

NoCallerReturn == [result |-> ZeroRoundState, err |-> Nil]

IdleConcurrent ==
    /\ fa = NewFluxAggregator("0xFA", "client")
    /\ cpc = [c \in Callers |-> "idle"]
    /\ cargs = [c \in Callers |-> <<>>]
    /\ slot = [c \in Callers |-> ZeroRoundState]
    /\ cerr = [c \in Callers |-> Nil]
    /\ cret = [c \in Callers |-> NoCallerReturn]

InvokeRoundState(c, oracle, roundID) ==
    /\ cpc[c] = "idle"
    /\ cargs' = [cargs EXCEPT ![c] = <<oracle, roundID>>]
    /\ slot' = [slot EXCEPT ![ResultSlot(c)] = ZeroRoundState]
    /\ cpc' = [cpc EXCEPT ![c] = "invoked"]
    /\ UNCHANGED <<fa, cerr, cret, varsTimeout, varsQuery, varsLogs>>

CallRoundState(c) ==
    /\ cpc[c] = "invoked"
    /\ \E o \in Call(chain, slot[ResultSlot(c)], "oracleRoundState", cargs[c]) :
           /\ slot' = [slot EXCEPT ![ResultSlot(c)] = o.out]
           /\ cerr' = [cerr EXCEPT ![c] = o.err]
    /\ cpc' = [cpc EXCEPT ![c] = "called"]
    /\ UNCHANGED <<fa, cargs, cret, varsTimeout, varsQuery, varsLogs>>

ReturnRoundState(c) ==
    /\ cpc[c] = "called"
    /\ cret' = [cret EXCEPT ![c] =
                   RoundStateReturn([err |-> cerr[c], out |-> slot[ResultSlot(c)]])]
    /\ cpc' = [cpc EXCEPT ![c] = "done"]
    /\ UNCHANGED <<fa, cargs, slot, cerr, varsTimeout, varsQuery, varsLogs>>

(***************************************************************************)
(* Event topics, the registry and the raw logs                             *)
(***************************************************************************)
\* eth.MustGetV6ContractEventID("FluxAggregator", "NewRound")
AggregatorNewRoundLogTopic20191220 == "topic:NewRound(uint256,address,uint256)"
\* eth.MustGetV6ContractEventID("FluxAggregator", "AnswerUpdated")
AggregatorAnswerUpdatedLogTopic20191220 == "topic:AnswerUpdated(int256,uint256,uint256)"
\* An event of the contract that the registry does not hold.
SubmissionReceivedTopic == "topic:SubmissionReceived(int256,uint32,address)"

\* The registry with its two prototypes exchanged.
fluxAggregatorLogTypesSwapped ==
    (AggregatorNewRoundLogTopic20191220 :> "LogAnswerUpdated")
    @@ (AggregatorAnswerUpdatedLogTopic20191220 :> "LogNewRound")

\* The registry with a third topic entered.
fluxAggregatorLogTypesExtra ==
    (AggregatorNewRoundLogTopic20191220 :> "LogNewRound")
    @@ (AggregatorAnswerUpdatedLogTopic20191220 :> "LogAnswerUpdated")
    @@ (SubmissionReceivedTopic :> "LogNewRound")

\* The registry without its AnswerUpdated entry.
fluxAggregatorLogTypesMissing ==
    (AggregatorNewRoundLogTopic20191220 :> "LogNewRound")

\* var fluxAggregatorLogTypes = map[common.Hash]interface{}{...}
fluxAggregatorLogTypes ==
    (AggregatorNewRoundLogTopic20191220 :> "LogNewRound")
    @@ (AggregatorAnswerUpdatedLogTopic20191220 :> "LogAnswerUpdated")

\* The instance number of the registry's prototypes; reflect.New gives others.
PrototypeInstance == 0

\* The event each topic is the signature of, in the contract's ABI.
EventOf(topic) ==
    CASE topic = AggregatorNewRoundLogTopic20191220 -> "NewRound"
      [] topic = AggregatorAnswerUpdatedLogTopic20191220 -> "AnswerUpdated"
      [] OTHER -> "SubmissionReceived"

\* A 32-byte word holding an address, and back.
AddressWord(a) == AddressNumber(a)
WordAddress(w) == CHOOSE a \in Addresses : AddressNumber(a) = w

\* The events the contract emits, as their source payloads.
NewRoundEvents ==
    {[RoundId |-> r, StartedBy |-> a, StartedAt |-> 1000 + r] :
        r \in {1, 2}, a \in {"0xA2"}}
AnswerUpdatedEvents ==
    {[Current |-> 100 + r, RoundId |-> r, UpdatedAt |-> 1001 + r] : r \in {1}}

\* NewRound(uint256 indexed roundId, address indexed startedBy, uint256 startedAt)
EncodeNewRound(e) ==
    [topics |-> <<AggregatorNewRoundLogTopic20191220, e.RoundId, AddressWord(e.StartedBy)>>,
     data |-> <<e.StartedAt>>, BlockNumber |-> 10 + e.RoundId, Index |-> 0]

\* AnswerUpdated(int256 indexed current, uint256 indexed roundId, uint256 updatedAt)
EncodeAnswerUpdated(e) ==
    [topics |-> <<AggregatorAnswerUpdatedLogTopic20191220, e.Current, e.RoundId>>,
     data |-> <<e.UpdatedAt>>, BlockNumber |-> 10 + e.RoundId, Index |-> 1]

WellFormedLogs ==
    {EncodeNewRound(e) : e \in NewRoundEvents}
    \cup {EncodeAnswerUpdated(e) : e \in AnswerUpdatedEvents}

\* Logs of a registered topic whose data is cut short.
MalformedLogs == {[l EXCEPT !.data = <<>>] : l \in WellFormedLogs}

UnrecognizedLogs ==
    {[topics |-> <<SubmissionReceivedTopic, 101, 1>>, data |-> <<1>>,
      BlockNumber |-> 11, Index |-> 2]}

RawLogs == WellFormedLogs \cup MalformedLogs \cup UnrecognizedLogs

LogDecodeError == <<<<"LogDecodeError">>>>

\* codec.UnpackLog(&out, event, rawLog): the event's indexed fields from the
\* topics, the rest from the data, into a struct of the given shape.
DecodeLog(event, raw, shape) ==
    IF Len(raw.topics) # 3 \/ Len(raw.data) # 1 THEN [ok |-> FALSE, rec |-> <<>>]
    ELSE IF event = "NewRound" /\ shape = "LogNewRound"
    THEN [ok |-> TRUE,
          rec |-> [Log |-> raw, RoundId |-> BigInt(raw.topics[2]),
                   StartedBy |-> WordAddress(raw.topics[3]),
                   StartedAt |-> BigInt(raw.data[1])]]
    ELSE IF event = "AnswerUpdated" /\ shape = "LogAnswerUpdated"
    THEN [ok |-> TRUE,
          rec |-> [Log |-> raw, Current |-> BigInt(raw.topics[2]),
                   RoundId |-> BigInt(raw.topics[3]),
                   UpdatedAt |-> BigInt(raw.data[1])]]
    ELSE [ok |-> FALSE, rec |-> <<>>]

\* decodingLogListener.HandleLog(rawLog): what it does with one log
HandleLog(raw) ==
    IF raw.topics = <<>> \/ raw.topics[1] \notin DOMAIN fluxAggregatorLogTypes
    THEN [kind |-> "dropped", shape |-> "", rec |-> <<>>]
    ELSE LET shape == fluxAggregatorLogTypes[raw.topics[1]]
             d == DecodeLog(EventOf(raw.topics[1]), raw, shape)
         IN  IF d.ok THEN [kind |-> "delivered", shape |-> shape, rec |-> d.rec]
             ELSE [kind |-> "error", shape |-> shape, rec |-> <<>>]

(***************************************************************************)
(* SpecLogs: SubscribeToLogs, the broadcaster and the unsubscribe handle   *)
(***************************************************************************)
MaxLogs == 3
UnsubContexts == {"ctxA", "ctxB"}

AppListener == [kind |-> "app", inner |-> "listener"]

\* log.NewDecodingLogListener(fa, fluxAggregatorLogTypes, listener)
NewDecodingLogListener(listener) == [kind |-> "decoding", inner |-> listener.inner]

\* SubscribeToLogs handing back a handle for the listener it was given.
SubscribeToLogsOwnHandle(listener) ==
    [register |-> NewDecodingLogListener(listener), unsubscribe |-> listener]

\* fa.ConnectedContract.SubscribeToLogs(log.NewDecodingLogListener(...)):
\* the listener registered and the listener the returned handle removes
SubscribeToLogs(listener) ==
    [register |-> NewDecodingLogListener(listener),
     unsubscribe |-> NewDecodingLogListener(listener)]

IdleLogs ==
    /\ connected = FALSE
    /\ registered = {}
    /\ subRet = <<>>
    /\ inflight = <<>>
    /\ pushed = <<>>
    /\ handled = {}
    /\ delivered = <<>>
    /\ reported = <<>>
    /\ nextInstance = PrototypeInstance + 1
    /\ unsubPc = [u \in UnsubContexts |-> "idle"]
    /\ unsubReturns = 0
    /\ deliveredAtReturn = 0

InitLogs ==
    /\ connected \in BOOLEAN
    /\ registered = {}
    /\ subRet = <<>>
    /\ inflight = <<>>
    /\ pushed = <<>>
    /\ handled = {}
    /\ delivered = <<>>
    /\ reported = <<>>
    /\ nextInstance = PrototypeInstance + 1
    /\ unsubPc = [u \in UnsubContexts |-> "idle"]
    /\ unsubReturns = 0
    /\ deliveredAtReturn = 0

\* The application subscribes its listener.
Subscribe ==
    /\ subRet = <<>>
    /\ LET s == SubscribeToLogs(AppListener)
       IN  /\ registered' = registered \cup {s.register}
           /\ subRet' = <<[connected |-> connected, unsubscribe |-> s.unsubscribe]>>
    /\ UNCHANGED <<connected, inflight, pushed, handled, delivered, reported,
                   nextInstance, unsubPc, unsubReturns, deliveredAtReturn,
                   varsTimeout, varsQuery, varsConcurrent>>

\* The broadcaster attaches to the live log stream.
Connect ==
    /\ ~connected
    /\ connected' = TRUE
    /\ UNCHANGED <<registered, subRet, inflight, pushed, handled, delivered, reported,
                   nextInstance, unsubPc, unsubReturns, deliveredAtReturn,
                   varsTimeout, varsQuery, varsConcurrent>>

\* The broadcaster takes a log from the chain for its registered listeners.
Dispatch(raw) ==
    /\ connected
    /\ inflight = <<>>
    /\ Len(pushed) < MaxLogs
    /\ pushed' = Append(pushed, raw)
    /\ inflight' = IF registered = {} THEN <<>>
                   ELSE <<[idx |-> Len(pushed) + 1, to |-> registered]>>
    /\ UNCHANGED <<connected, registered, subRet, handled, delivered, reported,
                   nextInstance, unsubPc, unsubReturns, deliveredAtReturn,
                   varsTimeout, varsQuery, varsConcurrent>>

\* The broadcaster hands the log in flight to a listener: HandleLog runs.
Deliver ==
    /\ inflight # <<>>
    /\ \E l \in inflight[1].to :
        LET idx == inflight[1].idx
            out == HandleLog(pushed[idx])
            rest == inflight[1].to \ {l}
        IN  /\ handled' = handled \cup {idx}
            /\ nextInstance' = IF out.kind = "dropped" THEN nextInstance
                               ELSE nextInstance + 1
            /\ delivered' = IF out.kind = "delivered"
                            THEN Append(delivered, [idx |-> idx, shape |-> out.shape,
                                                    rec |-> out.rec, inst |-> nextInstance])
                            ELSE delivered
            /\ reported' = IF out.kind = "error"
                           THEN Append(reported, [idx |-> idx, err |-> LogDecodeError])
                           ELSE reported
            /\ inflight' = IF rest = {} THEN <<>>
                           ELSE <<[idx |-> idx, to |-> rest]>>
    /\ UNCHANGED <<connected, registered, subRet, pushed, unsubPc, unsubReturns,
                   deliveredAtReturn, varsTimeout, varsQuery, varsConcurrent>>

\* A context calls the unsubscribe handle: the listener leaves the registry.
CallUnsubscribe(u) ==
    /\ subRet # <<>>
    /\ unsubPc[u] = "idle"
    /\ registered' = registered \ {subRet[1].unsubscribe}
    /\ unsubPc' = [unsubPc EXCEPT ![u] = "removing"]
    /\ UNCHANGED <<connected, subRet, inflight, pushed, handled, delivered, reported,
                   nextInstance, unsubReturns, deliveredAtReturn,
                   varsTimeout, varsQuery, varsConcurrent>>

\* The handle returns, once no log is in flight to the listener it removed.
ReturnUnsubscribe(u) ==
    /\ unsubPc[u] = "removing"
    /\ IF inflight = <<>> THEN TRUE ELSE subRet[1].unsubscribe \notin inflight[1].to
    /\ unsubPc' = [unsubPc EXCEPT ![u] = "returned"]
    /\ unsubReturns' = unsubReturns + 1
    /\ deliveredAtReturn' = IF unsubReturns = 0 THEN Len(delivered) ELSE deliveredAtReturn
    /\ UNCHANGED <<connected, registered, subRet, inflight, pushed, handled, delivered,
                   reported, nextInstance, varsTimeout, varsQuery, varsConcurrent>>

(***************************************************************************)
(* The specifications                                                      *)
(***************************************************************************)
Init == InitTimeout /\ IdleQuery /\ IdleConcurrent /\ IdleLogs
Next == CallTimesOutAt
Spec == Init /\ [][Next]_vars
SpecTimeout == Spec

QueryInit == IdleTimeout /\ InitQuery /\ IdleConcurrent /\ IdleLogs
QueryNext ==
    \/ \E oracle \in Addresses, roundID \in 0..MaxRoundID : RoundState(oracle, roundID)
    \/ GetOracles
    \/ LatestRoundData
SpecQuery == QueryInit /\ [][QueryNext]_vars

ConcurrentChains == {ch \in Chains : ch.rounds = MaxRounds /\ Len(ch.oracles) = 1}
ConcurrentInit ==
    /\ IdleTimeout /\ IdleConcurrent /\ IdleLogs
    /\ chain \in ConcurrentChains
    /\ ret = NoReturn /\ invocations = 0 /\ calls = 0
ConcurrentNext ==
    \E c \in Callers :
        \/ \E oracle \in Addresses, roundID \in 0..MaxRoundID :
               InvokeRoundState(c, oracle, roundID)
        \/ CallRoundState(c)
        \/ ReturnRoundState(c)
SpecConcurrent == ConcurrentInit /\ [][ConcurrentNext]_vars

LogsInit == IdleTimeout /\ IdleQuery /\ IdleConcurrent /\ InitLogs
LogsNext ==
    \/ Subscribe
    \/ Connect
    \/ \E raw \in RawLogs : Dispatch(raw)
    \/ Deliver
    \/ \E u \in UnsubContexts : CallUnsubscribe(u) \/ ReturnUnsubscribe(u)
SpecLogs == LogsInit /\ [][LogsNext]_vars

(***************************************************************************)
(* Properties                                                              *)
(***************************************************************************)

\* C1: TimesOutAt() returns exactly StartedAt + Timeout; when the sum exceeds
\* 2^64 - 1 the overflow is guarded (the result saturates at the maximum), and
\* the result is never a wrapped value smaller than StartedAt.
C1_TimesOutAtGuarded ==
    timesOutAt # <<>> =>
        /\ timesOutAt[1] = TimesOutAtSaturating(rs)
        /\ ~Less64(timesOutAt[1], rs.StartedAt)

RegisteredTopics ==
    {AggregatorNewRoundLogTopic20191220, AggregatorAnswerUpdatedLogTopic20191220}

DeliveredFor(i) == {k \in 1..Len(delivered) : delivered[k].idx = i}
ReportedFor(i) == {k \in 1..Len(reported) : reported[k].idx = i}

HasUnregisteredTopic(l) == l.topics # <<>> /\ l.topics[1] \notin RegisteredTopics

\* C2: a raw log handed to the subscription whose first topic is neither the
\* NewRound nor the AnswerUpdated topic hash gives the listener nothing and
\* reports no error.
C2_UnrecognizedDropped ==
    \A i \in handled :
        HasUnregisteredTopic(pushed[i]) => DeliveredFor(i) = {} /\ ReportedFor(i) = {}

\* C2 witness: a log with an unregistered first topic went through HandleLog.
C2_Witness ==
    \E i \in handled : HasUnregisteredTopic(pushed[i])

\* C3: a raw log that encodes a NewRound (AnswerUpdated) event gives the
\* listener exactly one record, of shape LogNewRound (LogAnswerUpdated), whose
\* decoded fields equal the event's payload and whose embedded raw log is the
\* log as pushed; every delivered record is an instance of its own, none the
\* registry's prototype.
C3_RecognizedDelivered ==
    /\ \A i \in handled : \A e \in NewRoundEvents :
           pushed[i] = EncodeNewRound(e) =>
               /\ Cardinality(DeliveredFor(i)) = 1
               /\ \A k \in DeliveredFor(i) :
                      /\ delivered[k].shape = "LogNewRound"
                      /\ delivered[k].rec.Log = pushed[i]
                      /\ delivered[k].rec.RoundId = BigInt(e.RoundId)
                      /\ delivered[k].rec.StartedBy = e.StartedBy
                      /\ delivered[k].rec.StartedAt = BigInt(e.StartedAt)
    /\ \A i \in handled : \A e \in AnswerUpdatedEvents :
           pushed[i] = EncodeAnswerUpdated(e) =>
               /\ Cardinality(DeliveredFor(i)) = 1
               /\ \A k \in DeliveredFor(i) :
                      /\ delivered[k].shape = "LogAnswerUpdated"
                      /\ delivered[k].rec.Log = pushed[i]
                      /\ delivered[k].rec.Current = BigInt(e.Current)
                      /\ delivered[k].rec.RoundId = BigInt(e.RoundId)
                      /\ delivered[k].rec.UpdatedAt = BigInt(e.UpdatedAt)
    /\ \A k \in 1..Len(delivered) :
           /\ delivered[k].inst # PrototypeInstance
           /\ \A m \in 1..Len(delivered) :
                  k # m => delivered[k].inst # delivered[m].inst

\* C3 witness: the listener has received a LogNewRound and a LogAnswerUpdated.
C3_Witness ==
    /\ \E k \in 1..Len(delivered) : delivered[k].shape = "LogNewRound"
    /\ \E k \in 1..Len(delivered) : delivered[k].shape = "LogAnswerUpdated"

\* C4: a log of a registered topic whose data does not decode has exactly one
\* LogDecodeError reported for it and no record delivered; errors are reported
\* for such logs only; every later well-formed log of a registered topic is
\* still delivered, and the decoding listener stays registered until the
\* unsubscribe handle is called.
C4_DecodeErrorIsolated ==
    /\ \A i \in handled :
           pushed[i] \in MalformedLogs =>
               /\ Cardinality(ReportedFor(i)) = 1
               /\ \A k \in ReportedFor(i) : reported[k].err = LogDecodeError
               /\ DeliveredFor(i) = {}
               /\ \A j \in handled :
                      (j > i /\ pushed[j] \in WellFormedLogs) =>
                          Cardinality(DeliveredFor(j)) = 1
    /\ \A k \in 1..Len(reported) : pushed[reported[k].idx] \in MalformedLogs
    /\ (subRet # <<>> /\ \A u \in UnsubContexts : unsubPc[u] = "idle") =>
           NewDecodingLogListener(AppListener) \in registered

\* C4 witness: an undecodable log was handled, and a later well-formed log was
\* delivered.
C4_Witness ==
    \E i \in handled, j \in handled :
        /\ i < j
        /\ pushed[i] \in MalformedLogs
        /\ ReportedFor(i) # {}
        /\ pushed[j] \in WellFormedLogs
        /\ DeliveredFor(j) # {}

\* C5: every error a query returns carries a message that names the contract
\* method being queried, together with the underlying cause.
C5_ErrorsNameOperation ==
    ret.err # Nil =>
        /\ Contains(ErrorText(ret.err), <<MethodOf(ret.op)>>)
        /\ Contains(ErrorText(ret.err), ret.callErr[1])

\* C6: when its Call succeeds, GetOracles returns a nil error and a list that is
\* present (not nil) and holds the contract's oracles: the empty list for a
\* contract with no oracle.
C6_GetOraclesPresent ==
    (ret.op = "GetOracles" /\ ret.callErr = Nil) =>
        /\ ret.err = Nil
        /\ ~ret.result.isNil
        /\ ret.result.elems = chain.oracles

\* C6 witness: GetOracles succeeded on a contract with zero oracles.
C6_Witness ==
    ret.op = "GetOracles" /\ ret.callErr = Nil /\ chain.oracles = <<>>

\* C7: when the latestRoundData call fails, LatestRoundData returns an error
\* whose message contains the hint "contract may have 0 rounds" and whose cause
\* is the error the call returned.
C7_ZeroRoundsHint ==
    (ret.op = "LatestRoundData" /\ ret.callErr # Nil) =>
        /\ ret.err # Nil
        /\ Contains(ErrorText(ret.err), ZeroRoundsHint)
        /\ Cause(ret.err) = ret.callErr

\* C7 witness: LatestRoundData failed on a contract with no completed round.
C7_Witness ==
    ret.op = "LatestRoundData" /\ chain.rounds = 0 /\ ret.callErr = <<NoDataPresent>>

\* C8: once a call of the unsubscribe handle has returned, the listener receives
\* no further record and its decoding listener is out of the registry, however
\* the deliveries and the calls of the handle interleave; a second call changes
\* neither.
C8_UnsubscribeFinal ==
    unsubReturns > 0 =>
        /\ Len(delivered) = deliveredAtReturn
        /\ NewDecodingLogListener(AppListener) \notin registered

\* C8 witness: the handle has returned twice, a record had been delivered
\* before, and a log pushed afterwards was never handed to the listener.
C8_Witness ==
    /\ unsubReturns = 2
    /\ inflight = <<>>
    /\ \E j \in handled, i \in 1..Len(pushed) :
           j < i /\ i \notin handled /\ DeliveredFor(j) # {}
           /\ pushed[i] \in WellFormedLogs

\* C9: under every interleaving of the callers, a RoundState call that has
\* returned holds the snapshot of its own (oracle, roundID) when its Call
\* succeeded and the zero value with an error when it failed, and the handle is
\* as constructed.
C9_NoCrossTalk ==
    /\ fa = NewFluxAggregator("0xFA", "client")
    /\ \A c \in Callers :
           cpc[c] = "done" =>
               IF cerr[c] = Nil
               THEN /\ cret[c].err = Nil
                    /\ cret[c].result = ChainRoundState(chain, cargs[c][1], cargs[c][2])
               ELSE /\ cret[c].err # Nil
                    /\ cret[c].result = ZeroRoundState

\* C9 witness: every caller has returned without error, all with distinct
\* (oracle, roundID) pairs.
C9_Witness ==
    /\ \A c \in Callers : cpc[c] = "done" /\ cret[c].err = Nil
    /\ \A c \in Callers, d \in Callers : c # d => cargs[c] # cargs[d]

ZeroResult(op) ==
    CASE op = "RoundState" -> ZeroRoundState
      [] op = "GetOracles" -> NilSlice
      [] op = "LatestRoundData" -> ZeroRoundData

\* C10: each query issues one Call per invocation; when the Call fails the query
\* returns a non-nil error and the zero value of its result type; when it
\* succeeds the query returns a nil error and the decoded result.
C10_OneCallZeroOnError ==
    /\ calls = invocations
    /\ ret.op # "none" =>
           IF ret.callErr # Nil
           THEN ret.err # Nil /\ ret.result = ZeroResult(ret.op)
           ELSE ret.err = Nil /\ ret.result = Decoded(chain, MethodOf(ret.op), ret.args)

\* C10 witness: a RoundState whose Call failed has returned, after an earlier
\* query.
C10_Witness ==
    ret.op = "RoundState" /\ ret.callErr # Nil /\ invocations >= 2

====
